---- MODULE Spec2Model ----
(***************************************************************************)
(* Secret Santa registry (src/main.py): the participant registry, the      *)
(* lifecycle flag `shuffled`, the assignment engine build_valid_assignment *)
(* and the JSON snapshot written by save_data and read by load_data.       *)
(*                                                                         *)
(* Strings are sequences of one-character strings; an Optional value is    *)
(* the empty set (None) or a singleton set.  A uuid4 identity is a number  *)
(* never handed out before.                                                *)
(***************************************************************************)
EXTENDS Integers, Sequences, FiniteSets, TLC

VARIABLES
    participants,   \* the dict `participants`, in insertion order
    shuffled,       \* the global `shuffled`
    disk,           \* the content of DATA_FILE
    nextId,         \* the identities uuid4 has handed out are 1..nextId-1
    last,           \* the last request served and its response
    ids,            \* shuffle and build_valid_assignment: the list `ids`
    receivers,      \* build_valid_assignment: the local `receivers`
    epc,            \* build_valid_assignment: position in the loop
    assignment_map, \* shuffle: the local `assignment_map`
    threads,        \* the requests the thread pool is serving, step by step
    up,             \* the process is running (load_data did not raise)
    acked           \* the registry and flag when success was last reported

vars == <<participants, shuffled, disk, nextId, last, ids, receivers, epc,
          assignment_map, threads, up, acked>>

---------------------------------------------------------------------------
\* Bounds of the model.

\* identities uuid4 can hand out
MaxIds == 3

\* objects in the list of a snapshot given to load_data on its own
MaxItems == 2

---------------------------------------------------------------------------
\* Values.

None == {}
Some(v) == {v}
TheValue(o) == CHOOSE v \in o : TRUE

SP == " "

\* ADMIN_SECRET, the default of os.getenv
ADMIN_SECRET == Some(<<"s">>)

\* the `secret` query parameter: absent, wrong, right
Secrets == {None, Some(<<"x">>), ADMIN_SECRET}

\* the bodies of the join requests tried: name and giftPreference
JoinInputs ==
    { [name |-> <<>>,            giftPreference |-> None],
      [name |-> <<SP>>,          giftPreference |-> Some(<<>>)],
      [name |-> <<"A">>,         giftPreference |-> Some(<<SP>>)],
      [name |-> <<SP, "B", SP>>, giftPreference |-> Some(<<SP, "t">>)] }

AllIds == 1..MaxIds

\* str.strip(), on the one whitespace character of the model
RECURSIVE LStrip(_)
LStrip(s) == IF s # <<>> /\ Head(s) = SP THEN LStrip(Tail(s)) ELSE s

RECURSIVE RStrip(_)
RStrip(s) ==
    IF s # <<>> /\ s[Len(s)] = SP THEN RStrip(SubSeq(s, 1, Len(s) - 1)) ELSE s

Strip(s) == RStrip(LStrip(s))

\* pydantic's check of ParticipantIn: name has min_length 1
ValidParticipantIn(body) == Len(body.name) >= 1

SetOf(l) == {l[i] : i \in 1..Len(l)}

\* the keys of `participants`, in order: list(participants.keys())
Keys(ps) == [i \in 1..Len(ps) |-> ps[i].id]
KeySet(ps) == {ps[i].id : i \in 1..Len(ps)}

\* participants.get(id): None or the record
Get(ps, id) == {ps[i] : i \in {j \in 1..Len(ps) : ps[j].id = id}}

\* participants.pop(id)
Pop(ps, id) == SelectSeq(ps, LAMBDA p : p.id # id)

---------------------------------------------------------------------------
\* The snapshot: save_data and load_data.

\* A file is absent, or holds `size` characters that are, when `valid`, the
\* JSON text of an object with a list "participants" of objects and, unless
\* `shuffled` is None, a boolean "shuffled"; and no JSON document otherwise.
\* An object of the list is a function from the keys it holds.
NoFile ==
    [exists |-> FALSE, valid |-> FALSE, size |-> 0,
     participants |-> <<>>, shuffled |-> None]

\* open(mode='w'): the file exists and is empty
Truncated == [NoFile EXCEPT !.exists = TRUE]

\* the length of json.dumps of an Optional[str]: null, or the quoted string
JsonLen(o, len) == IF o = None THEN 4 ELSE len + 2

\* the length of json.dumps(payload, indent=2), an identity being the 36
\* characters of a uuid4: the lines of one record ...
RecordSize(p) ==
    63 + (18 + Len(p.name))
       + (26 + JsonLen(p.giftPreference,
                       IF p.giftPreference = None THEN 0
                       ELSE Len(TheValue(p.giftPreference))))
       + (21 + JsonLen(p.assignedTo, 36))

\* ... of the records, each followed by a comma and a line break ...
RECURSIVE RecordsSize(_)
RecordsSize(ps) ==
    IF ps = <<>> THEN 0 ELSE RecordSize(Head(ps)) + 2 + RecordsSize(Tail(ps))

\* ... and the lines around them, the last record followed by no comma
TextSize(ps, flag) ==
    (IF ps = <<>> THEN 40 ELSE 42 + RecordsSize(ps))
        + (IF flag THEN 4 ELSE 5)

\* a model_dump that leaves assignedTo out
PayloadDropsAssignedTo(ps, flag) ==
    [exists |-> TRUE, valid |-> TRUE, size |-> TextSize(ps, flag),
     participants |-> [i \in 1..Len(ps) |->
                          [id |-> ps[i].id, name |-> ps[i].name,
                           giftPreference |-> ps[i].giftPreference]],
     shuffled |-> Some(flag)]

\* the payload save_data builds: model_dump of every value, and the flag
Payload(ps, flag) ==
    [exists |-> TRUE, valid |-> TRUE, size |-> TextSize(ps, flag),
     participants |-> [i \in 1..Len(ps) |->
                          [id |-> ps[i].id, name |-> ps[i].name,
                           giftPreference |-> ps[i].giftPreference,
                           assignedTo |-> ps[i].assignedTo]],
     shuffled |-> Some(flag)]

\* write_text's write of `text` from offset 0 into a file opened earlier: what
\* another writer put there since stays beyond the end of `text`
Overlay(file, text) ==
    IF file.size <= text.size THEN text
    ELSE [Truncated EXCEPT !.size = file.size]

\* load_data: `if "id" in item and "name" in item`
WellFormed(item) == "id" \in DOMAIN item /\ "name" \in DOMAIN item

\* load_data: Participant(**item), a missing optional field being None
FromItem(item) ==
    [id |-> item.id, name |-> item.name,
     giftPreference |-> IF "giftPreference" \in DOMAIN item
                            THEN item.giftPreference ELSE None,
     assignedTo |-> IF "assignedTo" \in DOMAIN item
                        THEN item.assignedTo ELSE None]

\* the dict comprehension of load_data: a key seen again keeps its place and
\* takes the later value
RECURSIVE DictOf(_, _)
DictOf(d, items) ==
    IF items = <<>> THEN d
    ELSE LET p == FromItem(Head(items)) IN
         DictOf(IF p.id \in {d[i].id : i \in 1..Len(d)}
                    THEN [i \in 1..Len(d) |-> IF d[i].id = p.id THEN p ELSE d[i]]
                    ELSE Append(d, p),
                Tail(items))

\* load_data: the registry read from a file, the module's empty dict when
\* there is none
LoadParticipants(file) ==
    IF file.exists /\ file.valid
        THEN DictOf(<<>>, SelectSeq(file.participants, WellFormed))
        ELSE <<>>

\* load_data trusting the stored flag alone
LoadShuffledFlagOnly(file) == file.shuffled = Some(TRUE)

\* load_data without its `global shuffled`: the flag stays False
LoadShuffledForgotten(file) == FALSE

\* load_data: the flag, the stored one or any assignment present
LoadShuffled(file) ==
    IF file.exists /\ file.valid
        THEN file.shuffled = Some(TRUE)
             \/ \E i \in 1..Len(LoadParticipants(file)) :
                    LoadParticipants(file)[i].assignedTo # None
        ELSE FALSE

---------------------------------------------------------------------------
\* The assignment engine.

\* a draw with repeats, as random.choices would make
ShufflesWithRepeats(l) == [1..Len(l) -> {l[i] : i \in 1..Len(l)}]

\* a source that only ever hands back the list as it was
ShufflesIdentity(l) == {l}

\* random.shuffle(receivers): every reordering of ids
Shuffles(l) ==
    {r \in [1..Len(l) -> {l[i] : i \in 1..Len(l)}] :
        \A i, j \in 1..Len(l) : i # j => r[i] # r[j]}

\* any() where the code has all()
AcceptsAny(l, r) == \E i \in 1..Len(l) : l[i] # r[i]

\* all(giver != receiver for giver, receiver in zip(ids, receivers))
Accepts(l, r) == \A i \in 1..Len(l) : l[i] # r[i]

\* {giver: receiver for giver, receiver in zip(ids, receivers)}
Mapping(l, r) == [g \in {l[i] : i \in 1..Len(l)} |->
                     r[CHOOSE i \in 1..Len(l) : l[i] = g]]

---------------------------------------------------------------------------
\* Requests and responses.

NoBody == [name |-> <<>>, giftPreference |-> None]

Request(op, secret, id, body) ==
    [op |-> op, secret |-> secret, id |-> id, body |-> body]

Response(req, status, reply) ==
    [op |-> req.op, secret |-> req.secret, id |-> req.id, body |-> req.body,
     status |-> status, reply |-> reply]

NoRequest == Response(Request("none", None, None, NoBody), "none", None)

\* require_admin: the secret given is the configured one
require_admin(secret) == secret = ADMIN_SECRET

\* add_participant without its check of the flag
AddNeverBlocked == FALSE

\* add_participant: `if shuffled`
AddBlocked == shuffled

\* remove_participant without its check of the flag
RemoveNeverBlocked == FALSE

\* remove_participant: `if shuffled`
RemoveBlocked == shuffled

\* shuffle without its check of the flag
ShuffleNeverBlocked == FALSE

\* shuffle: `if shuffled`
ShuffleBlocked == shuffled

\* the size check off by one
TooFewOffByOne(ps) == Len(ps) < 1

\* shuffle: `if len(participants) < 2`
TooFew(ps) == Len(ps) < 2

\* add_participant: the record built from the request body
NewParticipant(id, body) ==
    [id |-> id,
     name |-> Strip(body.name),
     giftPreference |->
         IF body.giftPreference # None /\ TheValue(body.giftPreference) # <<>>
             THEN Some(Strip(TheValue(body.giftPreference)))
             ELSE None,
     assignedTo |-> None]

\* shuffle: participants[giver_id].assignedTo = receiver_id, for every item
ApplyAssignment(ps, m) ==
    [i \in 1..Len(ps) |->
        IF ps[i].id \in DOMAIN m
            THEN [ps[i] EXCEPT !.assignedTo = Some(m[ps[i].id])]
            ELSE ps[i]]

Idle == epc = "idle"

\* the thread pool serving the def endpoints
Threads == {"t1", "t2"}

\* a thread of the pool: the request it serves, its position in the handler
\* and the handler's locals
IdleThread ==
    [pc |-> "idle", op |-> "none", id |-> None, status |-> "none",
     ids |-> <<>>, assignment_map |-> <<>>, k |-> 0, used |-> 0,
     payload |-> <<>>, text |-> NoFile]

Registry(ps, flag) == [participants |-> ps, shuffled |-> flag]

EngineUnchanged == UNCHANGED <<ids, receivers, epc, assignment_map>>

PoolUnchanged == UNCHANGED <<threads, up, acked>>

---------------------------------------------------------------------------
\* The request handlers, one request at a time.

\* POST /participants
add_participant(body) ==
    LET req == Request("join", None, None, body) IN
    /\ Idle
    /\ IF ~ValidParticipantIn(body)
           THEN /\ last' = Response(req, "InvalidInput", None)
                /\ UNCHANGED <<participants, shuffled, disk, nextId>>
       ELSE IF AddBlocked
           THEN /\ last' = Response(req, "AlreadyClosed", None)
                /\ UNCHANGED <<participants, shuffled, disk, nextId>>
       ELSE /\ nextId <= MaxIds
            /\ participants' = Append(participants, NewParticipant(nextId, body))
            /\ nextId' = nextId + 1
            /\ disk' = Payload(participants', shuffled)
            /\ last' = Response([req EXCEPT !.id = Some(nextId)], "OK", None)
            /\ UNCHANGED shuffled
    /\ EngineUnchanged
    /\ PoolUnchanged

\* GET /participants
list_participants(secret) ==
    LET req == Request("list", secret, None, NoBody) IN
    /\ Idle
    /\ last' = IF require_admin(secret)
                   THEN Response(req, "OK", None)
                   ELSE Response(req, "Forbidden", None)
    /\ UNCHANGED <<participants, shuffled, disk, nextId>>
    /\ EngineUnchanged
    /\ PoolUnchanged

\* DELETE /participants/{participant_id}
remove_participant(id, secret) ==
    LET req == Request("remove", secret, Some(id), NoBody) IN
    /\ Idle
    /\ IF ~require_admin(secret)
           THEN /\ last' = Response(req, "Forbidden", None)
                /\ UNCHANGED <<participants, disk>>
       ELSE IF RemoveBlocked
           THEN /\ last' = Response(req, "AlreadyClosed", None)
                /\ UNCHANGED <<participants, disk>>
       ELSE IF id \notin KeySet(participants)
           THEN /\ last' = Response(req, "NotFound", None)
                /\ UNCHANGED <<participants, disk>>
       ELSE /\ participants' = Pop(participants, id)
            /\ disk' = Payload(participants', shuffled)
            /\ last' = Response(req, "OK", None)
    /\ UNCHANGED <<shuffled, nextId>>
    /\ EngineUnchanged
    /\ PoolUnchanged

\* POST /shuffle, up to the call of build_valid_assignment
shuffle(secret) ==
    LET req == Request("shuffle", secret, None, NoBody) IN
    /\ Idle
    /\ IF ~require_admin(secret)
           THEN /\ last' = Response(req, "Forbidden", None)
                /\ EngineUnchanged
       ELSE IF ShuffleBlocked
           THEN /\ last' = Response(req, "AlreadyClosed", None)
                /\ EngineUnchanged
       ELSE IF TooFew(participants)
           THEN /\ last' = Response(req, "InsufficientParticipants", None)
                /\ EngineUnchanged
       ELSE /\ ids' = Keys(participants)
            /\ epc' = "draw"
            /\ last' = Response(req, "running", None)
            /\ UNCHANGED <<receivers, assignment_map>>
    /\ UNCHANGED <<participants, shuffled, disk, nextId>>
    /\ PoolUnchanged

\* build_valid_assignment: receivers = ids.copy(); random.shuffle(receivers)
Draw ==
    /\ epc = "draw"
    /\ receivers' \in Shuffles(ids)
    /\ epc' = "test"
    /\ UNCHANGED <<participants, shuffled, disk, nextId, last, ids, assignment_map>>
    /\ PoolUnchanged

\* build_valid_assignment: return the mapping, or go round the loop again
Test ==
    /\ epc = "test"
    /\ IF Accepts(ids, receivers)
           THEN /\ assignment_map' = Mapping(ids, receivers)
                /\ epc' = "returned"
           ELSE /\ epc' = "draw"
                /\ UNCHANGED assignment_map
    /\ UNCHANGED <<participants, shuffled, disk, nextId, last, ids, receivers>>
    /\ PoolUnchanged

\* POST /shuffle, from the return of build_valid_assignment on
shuffle_finish ==
    /\ epc = "returned"
    /\ last.op = "shuffle"
    /\ participants' = ApplyAssignment(participants, assignment_map)
    /\ shuffled' = TRUE
    /\ disk' = Payload(participants', shuffled')
    /\ last' = [last EXCEPT !.status = "OK"]
    /\ epc' = "idle"
    /\ ids' = <<>>
    /\ receivers' = <<>>
    /\ assignment_map' = <<>>
    /\ UNCHANGED nextId
    /\ PoolUnchanged

\* a lookup that answers with the asking participant's own record
ReceiverIsSelf(ps, participant) == Get(ps, participant.id)

\* receiver = participants.get(participant.assignedTo)
Receiver(ps, participant) == Get(ps, TheValue(participant.assignedTo))

\* GET /assignment/{participant_id}
get_assignment(id) ==
    LET req == Request("get", None, Some(id), NoBody)
        participant == Get(participants, id)
        receiver == Receiver(participants, TheValue(participant))
    IN
    /\ Idle
    /\ last' =
          IF participant = None
              THEN Response(req, "NotFound", None)
          ELSE IF TheValue(participant).assignedTo = None
              THEN Response(req, "NotReady", None)
          ELSE IF receiver = None
              THEN Response(req, "AssignmentIncomplete", None)
          ELSE Response(req, "OK",
                        Some([name |-> TheValue(receiver).name,
                              giftPreference |-> TheValue(receiver).giftPreference]))
    /\ UNCHANGED <<participants, shuffled, disk, nextId>>
    /\ EngineUnchanged
    /\ PoolUnchanged

\* the process is stopped between two requests and started again: load_data
Restart ==
    /\ Idle
    /\ participants' = LoadParticipants(disk)
    /\ shuffled' = LoadShuffled(disk)
    /\ last' = Response(Request("restart", None, None, NoBody), "OK", None)
    /\ UNCHANGED <<disk, nextId>>
    /\ EngineUnchanged
    /\ PoolUnchanged

Init ==
    /\ participants = <<>>
    /\ shuffled = FALSE
    /\ disk = NoFile
    /\ nextId = 1
    /\ last = NoRequest
    /\ ids = <<>>
    /\ receivers = <<>>
    /\ epc = "idle"
    /\ assignment_map = <<>>
    /\ threads = [t \in Threads |-> IdleThread]
    /\ up = TRUE
    /\ acked = Registry(<<>>, FALSE)

Next ==
    \/ \E body \in JoinInputs : add_participant(body)
    \/ \E secret \in Secrets : list_participants(secret)
    \/ \E id \in AllIds, secret \in Secrets : remove_participant(id, secret)
    \/ \E secret \in Secrets : shuffle(secret)
    \/ Draw
    \/ Test
    \/ shuffle_finish
    \/ \E id \in AllIds : get_assignment(id)
    \/ Restart

Spec == Init /\ [][Next]_vars

---------------------------------------------------------------------------
\* The request handlers as the thread pool runs them: every statement that
\* reads or writes `participants`, `shuffled` or DATA_FILE is a step of its
\* own, and no lock is taken.  The requests carry the right credential and a
\* valid body.

PoolBody == [name |-> <<"A">>, giftPreference |-> None]

PoolFrame == UNCHANGED <<last, ids, receivers, epc, assignment_map, up, acked>>

At(t, pc) == up /\ threads[t].pc = pc

Goto(t, pc) == threads' = [threads EXCEPT ![t].pc = pc]

\* the handler returns, or raises: the response is sent
Finish(t, status) ==
    threads' = [threads EXCEPT ![t].pc = "done", ![t].status = status]

\* joins that have not drawn their uuid4 yet
PendingJoins ==
    Cardinality({t \in Threads : threads[t].pc \in {"add_check", "add_insert"}})

\* a request arrives and a thread picks it up
Start(t, op, id) ==
    /\ up
    /\ op = "join" => nextId + PendingJoins <= MaxIds
    /\ threads' = [threads EXCEPT ![t] =
                       [IdleThread EXCEPT !.pc = CASE op = "join" -> "add_check"
                                                  [] op = "remove" -> "remove_check"
                                                  [] op = "shuffle" -> "shuffle_check",
                                          !.op = op, !.id = id]]
    /\ UNCHANGED <<participants, shuffled, disk, nextId>>
    /\ PoolFrame

\* add_participant: if shuffled
add_check(t) ==
    /\ At(t, "add_check")
    /\ IF AddBlocked THEN Finish(t, "AlreadyClosed") ELSE Goto(t, "add_insert")
    /\ UNCHANGED <<participants, shuffled, disk, nextId>>
    /\ PoolFrame

\* add_participant: participants[participant_id] = participant
add_insert(t) ==
    /\ At(t, "add_insert")
    /\ participants' = Append(participants, NewParticipant(nextId, PoolBody))
    /\ nextId' = nextId + 1
    /\ threads' = [threads EXCEPT ![t].pc = "save_start", ![t].id = Some(nextId)]
    /\ UNCHANGED <<shuffled, disk>>
    /\ PoolFrame

\* remove_participant: if shuffled
remove_check(t) ==
    /\ At(t, "remove_check")
    /\ IF RemoveBlocked THEN Finish(t, "AlreadyClosed") ELSE Goto(t, "remove_find")
    /\ UNCHANGED <<participants, shuffled, disk, nextId>>
    /\ PoolFrame

\* remove_participant: if participant_id not in participants
remove_find(t) ==
    /\ At(t, "remove_find")
    /\ IF TheValue(threads[t].id) \notin KeySet(participants)
           THEN Finish(t, "NotFound")
           ELSE Goto(t, "remove_pop")
    /\ UNCHANGED <<participants, shuffled, disk, nextId>>
    /\ PoolFrame

\* remove_participant: participants.pop(participant_id), a KeyError when the
\* key has gone since
remove_pop(t) ==
    /\ At(t, "remove_pop")
    /\ IF TheValue(threads[t].id) \in KeySet(participants)
           THEN /\ participants' = Pop(participants, TheValue(threads[t].id))
                /\ Goto(t, "save_start")
           ELSE /\ Finish(t, "InternalError")
                /\ UNCHANGED participants
    /\ UNCHANGED <<shuffled, disk, nextId>>
    /\ PoolFrame

\* shuffle: if shuffled
shuffle_check(t) ==
    /\ At(t, "shuffle_check")
    /\ IF ShuffleBlocked THEN Finish(t, "AlreadyClosed") ELSE Goto(t, "shuffle_len")
    /\ UNCHANGED <<participants, shuffled, disk, nextId>>
    /\ PoolFrame

\* shuffle: if len(participants) < 2
shuffle_len(t) ==
    /\ At(t, "shuffle_len")
    /\ IF TooFew(participants)
           THEN Finish(t, "InsufficientParticipants")
           ELSE Goto(t, "shuffle_ids")
    /\ UNCHANGED <<participants, shuffled, disk, nextId>>
    /\ PoolFrame

\* shuffle: ids = list(participants.keys()) and the call of
\* build_valid_assignment, which returns a mapping it accepts or, when it
\* accepts none, never returns
shuffle_ids(t) ==
    /\ At(t, "shuffle_ids")
    /\ LET l == Keys(participants) IN
       IF \E r \in Shuffles(l) : Accepts(l, r)
           THEN \E r \in Shuffles(l) :
                   /\ Accepts(l, r)
                   /\ threads' = [threads EXCEPT ![t].pc = "shuffle_assign",
                                                 ![t].ids = l,
                                                 ![t].assignment_map = Mapping(l, r),
                                                 ![t].k = 1]
           ELSE threads' = [threads EXCEPT ![t].pc = "shuffle_spin", ![t].ids = l]
    /\ UNCHANGED <<participants, shuffled, disk, nextId>>
    /\ PoolFrame

\* participants[giver_id].assignedTo = receiver_id
AssignOne(ps, giver, receiver) ==
    [i \in 1..Len(ps) |->
        IF ps[i].id = giver THEN [ps[i] EXCEPT !.assignedTo = Some(receiver)]
                            ELSE ps[i]]

\* shuffle: one round of the loop over assignment_map.items(), a KeyError
\* when the giver has gone; after the last round, shuffled = True
shuffle_assign(t) ==
    /\ At(t, "shuffle_assign")
    /\ LET me == threads[t] IN
       IF me.k > Len(me.ids)
           THEN /\ shuffled' = TRUE
                /\ Goto(t, "save_start")
                /\ UNCHANGED participants
       ELSE IF me.ids[me.k] \notin KeySet(participants)
           THEN /\ Finish(t, "InternalError")
                /\ UNCHANGED <<participants, shuffled>>
       ELSE /\ participants' = AssignOne(participants, me.ids[me.k],
                                         me.assignment_map[me.ids[me.k]])
            /\ threads' = [threads EXCEPT ![t].k = me.k + 1]
            /\ UNCHANGED shuffled
    /\ UNCHANGED <<disk, nextId>>
    /\ PoolFrame

\* save_data: the iterator of participants.values() is made
save_start(t) ==
    /\ At(t, "save_start")
    /\ threads' = [threads EXCEPT ![t].pc = "save_iter",
                                  ![t].used = Len(participants),
                                  ![t].k = 1, ![t].payload = <<>>]
    /\ UNCHANGED <<participants, shuffled, disk, nextId>>
    /\ PoolFrame

\* save_data: one round of the list comprehension, a RuntimeError when the
\* dict has changed size; after the last round, `shuffled` is read
save_iter(t) ==
    /\ At(t, "save_iter")
    /\ LET me == threads[t] IN
       IF Len(participants) # me.used
           THEN Finish(t, "InternalError")
       ELSE IF me.k <= Len(participants)
           THEN threads' = [threads EXCEPT
                               ![t].payload = Append(me.payload, participants[me.k]),
                               ![t].k = me.k + 1]
       ELSE threads' = [threads EXCEPT ![t].pc = "save_open",
                                       ![t].text = Payload(me.payload, shuffled)]
    /\ UNCHANGED <<participants, shuffled, disk, nextId>>
    /\ PoolFrame

\* save_data: write_text opens DATA_FILE for writing, which empties it
save_open(t) ==
    /\ At(t, "save_open")
    /\ disk' = Truncated
    /\ Goto(t, "save_flush")
    /\ UNCHANGED <<participants, shuffled, nextId>>
    /\ PoolFrame

\* save_data: write_text writes the text and closes the file
save_flush(t) ==
    /\ At(t, "save_flush")
    /\ disk' = Overlay(disk, threads[t].text)
    /\ Goto(t, "reply")
    /\ UNCHANGED <<participants, shuffled, nextId>>
    /\ PoolFrame

\* the return statement; shuffle's reads participants[giver_id].name and
\* participants[receiver_id].name, a KeyError when one has gone
reply(t) ==
    /\ At(t, "reply")
    /\ IF threads[t].op = "shuffle"
          /\ ~(SetOf(threads[t].ids) \subseteq KeySet(participants))
           THEN /\ Finish(t, "InternalError")
                /\ UNCHANGED acked
           ELSE /\ Finish(t, "OK")
                /\ acked' = Registry(participants, shuffled)
    /\ UNCHANGED <<participants, shuffled, disk, nextId>>
    /\ UNCHANGED <<last, ids, receivers, epc, assignment_map, up>>

\* the registry after n joins served one after the other
Joined(n) == [i \in 1..n |-> NewParticipant(i, PoolBody)]

\* Concurrent requests, one per thread, on a registry built by earlier joins.
PoolInit ==
    /\ \E n \in 0..(MaxIds - 1) :
          /\ participants = Joined(n)
          /\ disk = IF n = 0 THEN NoFile ELSE Payload(Joined(n), FALSE)
          /\ nextId = n + 1
          /\ acked = Registry(Joined(n), FALSE)
    /\ shuffled = FALSE
    /\ last = NoRequest
    /\ ids = <<>>
    /\ receivers = <<>>
    /\ epc = "idle"
    /\ assignment_map = <<>>
    /\ threads = [t \in Threads |-> IdleThread]
    /\ up = TRUE

\* an idle thread picks up a request
Begin(t, op, id) == threads[t].pc = "idle" /\ Start(t, op, id)

PoolNext ==
    \/ \E t \in Threads : Begin(t, "join", None)
    \/ \E t \in Threads : Begin(t, "shuffle", None)
    \/ \E t \in Threads, id \in AllIds : Begin(t, "remove", Some(id))
    \/ \E t \in Threads : add_check(t)
    \/ \E t \in Threads : add_insert(t)
    \/ \E t \in Threads : remove_check(t)
    \/ \E t \in Threads : remove_find(t)
    \/ \E t \in Threads : remove_pop(t)
    \/ \E t \in Threads : shuffle_check(t)
    \/ \E t \in Threads : shuffle_len(t)
    \/ \E t \in Threads : shuffle_ids(t)
    \/ \E t \in Threads : shuffle_assign(t)
    \/ \E t \in Threads : save_start(t)
    \/ \E t \in Threads : save_iter(t)
    \/ \E t \in Threads : save_open(t)
    \/ \E t \in Threads : save_flush(t)
    \/ \E t \in Threads : reply(t)

SpecPool == PoolInit /\ [][PoolNext]_vars

---------------------------------------------------------------------------
\* Requests served one after the other by a process that can be killed at any
\* step and is then started again.

Main == "t1"

\* the next request arrives once the one before has been answered
SerialBegin(op, id) ==
    /\ \A t \in Threads : threads[t].pc \in {"idle", "done"}
    /\ Start(Main, op, id)

\* the process dies; started again, it runs load_data, and json.loads raises
\* on a file that holds no JSON document
CrashRestart ==
    /\ up
    /\ threads' = [t \in Threads |-> IdleThread]
    /\ participants' = LoadParticipants(disk)
    /\ shuffled' = LoadShuffled(disk)
    /\ up' = (disk.exists => disk.valid)
    /\ last' = Response(Request("restart", None, None, NoBody),
                        IF up' THEN "OK" ELSE "LoadFailed", None)
    /\ UNCHANGED <<disk, nextId, ids, receivers, epc, assignment_map, acked>>

CrashNext ==
    \/ SerialBegin("join", None)
    \/ SerialBegin("shuffle", None)
    \/ \E id \in AllIds : SerialBegin("remove", Some(id))
    \/ add_check(Main)
    \/ add_insert(Main)
    \/ remove_check(Main)
    \/ remove_find(Main)
    \/ remove_pop(Main)
    \/ shuffle_check(Main)
    \/ shuffle_len(Main)
    \/ shuffle_ids(Main)
    \/ shuffle_assign(Main)
    \/ save_start(Main)
    \/ save_iter(Main)
    \/ save_open(Main)
    \/ save_flush(Main)
    \/ reply(Main)
    \/ CrashRestart

SpecCrash == Init /\ [][CrashNext]_vars

---------------------------------------------------------------------------
\* Requests served one after the other on a store whose writes can fail.

\* save_data: mkdir or the open of DATA_FILE raises OSError; the handler does
\* not catch it and the request is answered 500
save_open_fails(t) ==
    /\ At(t, "save_open")
    /\ Finish(t, "InternalError")
    /\ UNCHANGED <<participants, shuffled, disk, nextId>>
    /\ PoolFrame

\* save_data: the write into the opened, emptied file raises OSError
save_flush_fails(t) ==
    /\ At(t, "save_flush")
    /\ Finish(t, "InternalError")
    /\ UNCHANGED <<participants, shuffled, disk, nextId>>
    /\ PoolFrame

FaultNext ==
    \/ SerialBegin("join", None)
    \/ SerialBegin("shuffle", None)
    \/ \E id \in AllIds : SerialBegin("remove", Some(id))
    \/ add_check(Main)
    \/ add_insert(Main)
    \/ remove_check(Main)
    \/ remove_find(Main)
    \/ remove_pop(Main)
    \/ shuffle_check(Main)
    \/ shuffle_len(Main)
    \/ shuffle_ids(Main)
    \/ shuffle_assign(Main)
    \/ save_start(Main)
    \/ save_iter(Main)
    \/ save_open(Main)
    \/ save_flush(Main)
    \/ save_open_fails(Main)
    \/ save_flush_fails(Main)
    \/ reply(Main)

SpecFault == Init /\ [][FaultNext]_vars

---------------------------------------------------------------------------
\* load_data on its own: the process starts on any snapshot.

\* the objects a snapshot's list can hold: whole, or with keys missing
SnapshotItems ==
    { [id |-> 1, name |-> <<"A">>, giftPreference |-> None, assignedTo |-> None],
      [id |-> 1, name |-> <<"A">>, giftPreference |-> None, assignedTo |-> Some(2)],
      [id |-> 2, name |-> <<"B">>, giftPreference |-> Some(<<"t">>),
       assignedTo |-> Some(1)],
      [id |-> 2, name |-> <<"B">>],
      [name |-> <<"A">>, assignedTo |-> Some(1)],
      [id |-> 2, assignedTo |-> Some(1)] }

\* the snapshots tried: a list of at most MaxItems objects, the flag true,
\* false or missing
Snapshots ==
    { [exists |-> TRUE, valid |-> TRUE, size |-> 0, participants |-> l,
       shuffled |-> f] :
        l \in UNION {[1..n -> SnapshotItems] : n \in 0..MaxItems},
        f \in {None, Some(TRUE), Some(FALSE)} }

\* the module's globals before load_data runs, on any store
LoadInit ==
    /\ participants = <<>>
    /\ shuffled = FALSE
    /\ disk \in Snapshots \cup {NoFile}
    /\ nextId = 1
    /\ last = NoRequest
    /\ ids = <<>>
    /\ receivers = <<>>
    /\ epc = "idle"
    /\ assignment_map = <<>>
    /\ threads = [t \in Threads |-> IdleThread]
    /\ up = TRUE
    /\ acked = Registry(<<>>, FALSE)

LoadNext == Restart

SpecLoad == LoadInit /\ [][LoadNext]_vars

---------------------------------------------------------------------------
\* build_valid_assignment on its own: any list of distinct identities.

DistinctLists ==
    UNION {{l \in [1..n -> AllIds] : \A i, j \in 1..n : i # j => l[i] # l[j]} :
              n \in 0..MaxIds}

EngineInit ==
    /\ participants = <<>>
    /\ shuffled = FALSE
    /\ disk = NoFile
    /\ nextId = 1
    /\ last = NoRequest
    /\ ids \in DistinctLists
    /\ receivers = <<>>
    /\ epc = "draw"
    /\ assignment_map = <<>>
    /\ threads = [t \in Threads |-> IdleThread]
    /\ up = TRUE
    /\ acked = Registry(<<>>, FALSE)

EngineNext == Draw \/ Test

SpecEngine == EngineInit /\ [][EngineNext]_vars

---------------------------------------------------------------------------
\* The serial program with a fair random source: the loop of
\* build_valid_assignment keeps running, random.shuffle does not avoid the
\* accepted reorderings for ever, and the handler goes on after the return.

FairSource == SF_vars(Draw /\ Accepts(ids, receivers'))

SpecLive ==
    /\ Init /\ [][Next]_vars
    /\ WF_vars(Draw) /\ WF_vars(Test) /\ WF_vars(shuffle_finish)
    /\ FairSource

---------------------------------------------------------------------------
\* Properties.

\* the request served by a step
Served(op) == last'.op = op /\ last' # last

Failed(status) == status \notin {"OK", "running"}

\* the assigned recipient of every identity in the registry
AssignedTo(ps) == [id \in KeySet(ps) |-> (TheValue(Get(ps, id))).assignedTo]

\* C1: for a list of N >= 2 distinct identities, every mapping
\* build_valid_assignment returns is a bijection of the input set onto itself
\* and maps no identity to itself.
C1_Derangement ==
    (epc = "returned" /\ Len(ids) >= 2) =>
        /\ DOMAIN assignment_map = SetOf(ids)
        /\ {assignment_map[g] : g \in DOMAIN assignment_map} = SetOf(ids)
        /\ \A g, h \in DOMAIN assignment_map :
               assignment_map[g] = assignment_map[h] => g = h
        /\ \A g \in DOMAIN assignment_map : assignment_map[g] # g

C1_Witness == epc = "returned" /\ Len(ids) = 3

\* C2: once a shuffle has succeeded, every later shuffle request fails (with
\* AlreadyClosed when the credential is correct) and no participant's
\* assignedTo changes.
C2_ShuffleOnce ==
    [][shuffled =>
          /\ Keys(participants') = Keys(participants)
          /\ AssignedTo(participants') = AssignedTo(participants)
          /\ Served("shuffle") =>
                 /\ Failed(last'.status)
                 /\ last'.secret = ADMIN_SECRET => last'.status = "AlreadyClosed"]_vars

C2_Witness ==
    /\ shuffled
    /\ last.op = "shuffle" /\ last.secret = ADMIN_SECRET
    /\ last.status = "AlreadyClosed"
    /\ \A i \in 1..Len(participants) : participants[i].assignedTo # None

\* C3: once the shuffled flag is True it is never False again, across
\* requests and restarts.
C3_GateMonotonic == [][shuffled => shuffled']_vars

C3_Witness == shuffled /\ last.op = "restart"

RegistryUnchanged == participants' = participants /\ disk' = disk

\* a join that adds exactly one participant, with a fresh identity and no
\* assignment
AddsOneFresh ==
    /\ Len(participants') = Len(participants) + 1
    /\ SubSeq(participants', 1, Len(participants)) = participants
    /\ LET p == participants'[Len(participants')] IN
           /\ p.id \notin KeySet(participants)
           /\ p.id \notin 1..(nextId - 1)
           /\ last'.id = Some(p.id)
           /\ p.assignedTo = None

\* C4 as stated: a join request made while the gate is CLOSED always fails
\* with AlreadyClosed and leaves the registry and the snapshot unchanged; made
\* while OPEN with a name non-empty after trimming it succeeds and adds one
\* new participant with a fresh identity and no assignment.
C4_AsStated ==
    [][Served("join") =>
          /\ shuffled => last'.status = "AlreadyClosed" /\ RegistryUnchanged
          /\ (~shuffled /\ Strip(last'.body.name) # <<>>) =>
                 last'.status = "OK" /\ AddsOneFresh]_vars

\* C4, amended: a join request made while the gate is CLOSED always fails and
\* leaves the registry and the snapshot unchanged, with AlreadyClosed when its
\* name has at least one character and with InvalidInput when its name is the
\* empty string; made while OPEN with a name non-empty after trimming it
\* succeeds and adds one new participant with a fresh identity and no
\* assignment.
C4_JoinGate ==
    [][Served("join") =>
          /\ shuffled =>
                 /\ RegistryUnchanged
                 /\ shuffled'
                 /\ last'.status =
                        IF Len(last'.body.name) >= 1 THEN "AlreadyClosed"
                                                     ELSE "InvalidInput"
          /\ (~shuffled /\ Strip(last'.body.name) # <<>>) =>
                 last'.status = "OK" /\ AddsOneFresh]_vars

C4_Witness ==
    /\ shuffled /\ last.op = "join" /\ last.status = "AlreadyClosed"
    /\ Strip(last.body.name) # <<>>
    /\ Len(participants) = 2 /\ nextId <= MaxIds

\* C5: with the correct credential, a remove request made while the gate is
\* CLOSED fails with AlreadyClosed whether or not the identity exists, and one
\* made while OPEN for an identity not in the registry fails with NotFound,
\* the registry, the gate and the snapshot unchanged in both cases; while
\* OPEN, removing a known identity deletes exactly that entry.
C5_RemoveGate ==
    [][(Served("remove") /\ last'.secret = ADMIN_SECRET) =>
          LET id == TheValue(last'.id) IN
          /\ shuffled =>
                 /\ last'.status = "AlreadyClosed"
                 /\ RegistryUnchanged /\ shuffled'
          /\ (~shuffled /\ id \notin KeySet(participants)) =>
                 /\ last'.status = "NotFound"
                 /\ RegistryUnchanged /\ ~shuffled'
          /\ (~shuffled /\ id \in KeySet(participants)) =>
                 /\ last'.status = "OK"
                 /\ participants' = SelectSeq(participants, LAMBDA p : p.id # id)
                 /\ Len(participants') = Len(participants) - 1]_vars

C5_Witness ==
    /\ last.op = "remove" /\ last.secret = ADMIN_SECRET
    /\ shuffled /\ last.status = "AlreadyClosed"
    /\ TheValue(last.id) \in KeySet(participants)

NoneAssigned(ps) == \A i \in 1..Len(ps) : ps[i].assignedTo = None

\* C6 as stated: a shuffle request made while the gate is OPEN with 0 or 1
\* participants always fails with InsufficientParticipants, never enters the
\* loop of build_valid_assignment, and leaves the gate OPEN and every
\* participant unassigned.
C6_AsStated ==
    [][(Served("shuffle") /\ ~shuffled /\ Len(participants) < 2) =>
          /\ last'.status = "InsufficientParticipants"
          /\ epc' = "idle"
          /\ ~shuffled' /\ NoneAssigned(participants')]_vars

\* C6, amended: a shuffle request made while the gate is OPEN with 0 or 1
\* participants always fails, with InsufficientParticipants when the
\* credential is correct and with Forbidden otherwise; it never enters the
\* loop of build_valid_assignment and leaves the gate OPEN and every
\* participant unassigned.
C6_TooFew ==
    [][(Served("shuffle") /\ ~shuffled /\ Len(participants) < 2) =>
          /\ last'.status =
                 IF last'.secret = ADMIN_SECRET THEN "InsufficientParticipants"
                                                ELSE "Forbidden"
          /\ epc' = "idle" /\ UNCHANGED <<ids, receivers, assignment_map>>
          /\ ~shuffled' /\ NoneAssigned(participants')
          /\ RegistryUnchanged]_vars

C6_Witness ==
    /\ last.op = "shuffle" /\ last.status = "InsufficientParticipants"
    /\ Len(participants) = 1 /\ ~shuffled

\* C7: every participant whose assignedTo is set is assigned the identity of
\* a participant in the registry other than itself, and get-assignment never
\* answers AssignmentIncomplete.
C7_AssignedToValid ==
    /\ \A i \in 1..Len(participants) :
           participants[i].assignedTo # None =>
               /\ TheValue(participants[i].assignedTo) \in KeySet(participants)
               /\ TheValue(participants[i].assignedTo) # participants[i].id
    /\ last.status # "AssignmentIncomplete"

C7_Witness ==
    /\ last.op = "get" /\ last.status = "OK"
    /\ Len(participants) = 3

\* a thread has answered its request
Answered(t, op, status) ==
    threads[t].op = op /\ threads[t].pc = "done" /\ threads[t].status = status

\* C8: of two shuffle requests running concurrently on an OPEN registry of at
\* least 2 participants, exactly one succeeds and the other fails with
\* AlreadyClosed, and the assignments in the registry afterwards are those of
\* the one that succeeded.
C8_OneShuffleWins ==
    (/\ \A t \in Threads : threads[t].op = "shuffle" /\ threads[t].pc = "done"
     /\ Len(participants) >= 2) =>
        \E w \in Threads :
            /\ Answered(w, "shuffle", "OK")
            /\ \A o \in Threads \ {w} : Answered(o, "shuffle", "AlreadyClosed")
            /\ AssignedTo(participants) =
                   [id \in KeySet(participants) |->
                       Some(threads[w].assignment_map[id])]

\* C9: a shuffle does not interleave with a concurrent join or remove: with
\* one shuffle among the requests, once the gate is CLOSED every participant
\* in the registry has an assignedTo naming another participant in the
\* registry.
C9_ShuffleIsolated ==
    (/\ Cardinality({t \in Threads : threads[t].op = "shuffle"}) = 1
     /\ shuffled) =>
        \A i \in 1..Len(participants) :
            /\ participants[i].assignedTo # None
            /\ TheValue(participants[i].assignedTo) \in KeySet(participants)
            /\ TheValue(participants[i].assignedTo) # participants[i].id

\* C10: when the process is killed after a request has reported success and
\* is started again, it comes up with the registry and gate it had when
\* success was last reported, or with those it had in memory when it was
\* killed: nothing acknowledged is lost.
C10_Durable ==
    [][(CrashRestart /\ acked.participants # <<>>) =>
          /\ up'
          /\ \/ Registry(participants', shuffled') = acked
             \/ Registry(participants', shuffled') =
                    Registry(participants, shuffled)]_vars

\* what load_data would make of the file
Loaded(file) == Registry(LoadParticipants(file), LoadShuffled(file))

\* C11: a request during which save_data fails does not report success, and
\* once it is answered the registry and gate in memory are what loading the
\* snapshot would yield.
C11_NoDivergence ==
    (threads[Main].pc = "done" /\ threads[Main].status = "InternalError") =>
        /\ disk.exists => disk.valid
        /\ Loaded(disk) = Registry(participants, shuffled)

\* C12: for every registry reached by join, remove and shuffle, save_data
\* followed by load_data gives back the same identities in the same order,
\* each with the same name, preference and assignedTo, and the same flag.
C12_RoundTrip ==
    /\ LoadParticipants(Payload(participants, shuffled)) = participants
    /\ LoadShuffled(Payload(participants, shuffled)) = shuffled

C12_Witness ==
    /\ shuffled /\ Len(participants) = 3
    /\ disk = Payload(participants, shuffled)
    /\ \E i \in 1..Len(participants) : participants[i].giftPreference # None

\* C13: after load_data the gate is CLOSED exactly when the stored flag is
\* true or a loaded participant has assignedTo set, and a missing store gives
\* the empty registry with the gate OPEN.
C13_LoadedGate ==
    last.op = "restart" =>
        /\ shuffled <=>
               \/ disk.shuffled = Some(TRUE)
               \/ \E i \in 1..Len(participants) : participants[i].assignedTo # None
        /\ ~disk.exists => participants = <<>> /\ ~shuffled

C13_Witness ==
    /\ last.op = "restart"
    /\ disk.exists /\ disk.shuffled # Some(TRUE)
    /\ shuffled

\* C14: get_assignment answers NotFound for an identity not in the registry,
\* NotReady for a registered identity with assignedTo unset, and otherwise
\* exactly the name and gift preference of the participant assignedTo refers
\* to; it never changes the registry, the gate or the snapshot.
C14_GetAssignment ==
    [][Served("get") =>
          LET id == TheValue(last'.id)
              asking == {i \in 1..Len(participants) : participants[i].id = id}
          IN
          /\ asking = {} => last'.status = "NotFound" /\ last'.reply = None
          /\ \A i \in asking :
                 IF participants[i].assignedTo = None
                     THEN last'.status = "NotReady" /\ last'.reply = None
                 ELSE /\ last'.status = "OK"
                      /\ \E j \in 1..Len(participants) :
                            /\ participants[j].id = TheValue(participants[i].assignedTo)
                            /\ last'.reply =
                                  Some([name |-> participants[j].name,
                                        giftPreference |-> participants[j].giftPreference])
          /\ UNCHANGED <<participants, shuffled, disk>>]_vars

C14_Witness ==
    /\ last.op = "get" /\ last.status = "OK"
    /\ TheValue(last.reply).giftPreference # None
    /\ Len(participants) = 3

\* C15: a join whose name is empty after trimming is refused, so in every
\* reachable state every stored name is trimmed and non-empty.
C15_NamesNonEmpty ==
    \A i \in 1..Len(participants) :
        /\ participants[i].name # <<>>
        /\ Strip(participants[i].name) = participants[i].name

\* C16: an empty or whitespace-only preference is stored as None and any
\* other preference is stored trimmed: no participant has an empty-string
\* preference.
C16_NoEmptyPreference ==
    \A i \in 1..Len(participants) :
        /\ participants[i].giftPreference # Some(<<>>)
        /\ participants[i].giftPreference # None =>
               Strip(TheValue(participants[i].giftPreference)) =
                   TheValue(participants[i].giftPreference)

\* C17 as stated: after a single join, a shuffle with the correct credential
\* succeeds.
C17_AsStated ==
    [][(Served("shuffle") /\ last'.secret = ADMIN_SECRET
            /\ ~shuffled /\ Len(participants) = 1) =>
          last'.status \in {"running", "OK"}]_vars

\* C17, amended: after a single join a shuffle with the correct credential
\* fails with InsufficientParticipants and leaves the gate OPEN and the
\* registry as it was; once the gate is CLOSED, a join with a name of at
\* least one character fails with AlreadyClosed.
C17_ScenarioC ==
    [][/\ (Served("shuffle") /\ last'.secret = ADMIN_SECRET
              /\ ~shuffled /\ Len(participants) = 1) =>
             /\ last'.status = "InsufficientParticipants"
             /\ ~shuffled' /\ RegistryUnchanged
       /\ (Served("join") /\ shuffled /\ ValidParticipantIn(last'.body)) =>
             /\ last'.status = "AlreadyClosed"
             /\ shuffled' /\ RegistryUnchanged]_vars

C17_Witness ==
    /\ last.op = "shuffle" /\ last.secret = ADMIN_SECRET
    /\ last.status = "InsufficientParticipants"
    /\ ~shuffled /\ Len(participants) = 1 /\ nextId = 2
    /\ participants[1].name = <<"A">>

\* C18: for every list of N >= 2 distinct identities the loop of
\* build_valid_assignment eventually returns a mapping, given a fair random
\* source, so every shuffle request that passes the gate and the size check
\* eventually completes.
C18_Terminates ==
    /\ (epc = "draw" /\ Len(ids) >= 2) ~> (epc = "returned")
    /\ (last.op = "shuffle" /\ last.status = "running") ~>
           (last.op = "shuffle" /\ last.status = "OK" /\ shuffled)

C18_Witness ==
    /\ epc = "returned" /\ Len(ids) = 3
    /\ last.op = "shuffle" /\ last.status = "running"
    /\ Accepts(ids, receivers)

\* C19: in the serial program the gate and the assignments agree: while the
\* gate is OPEN no participant has assignedTo set; while it is CLOSED every
\* participant has assignedTo set and the assignedTo values form a bijection
\* on the registered identities.
C19_GateAgrees ==
    LET n == Len(participants)
        registered == {participants[i].id : i \in 1..n}
    IN
    /\ ~shuffled => \A i \in 1..n : participants[i].assignedTo = None
    /\ shuffled =>
          /\ \A i \in 1..n : participants[i].assignedTo # None
          /\ \A i \in 1..n : TheValue(participants[i].assignedTo) \in registered
          /\ \A r \in registered :
                Cardinality({i \in 1..n :
                                participants[i].assignedTo = Some(r)}) = 1

C19_Witness ==
    /\ shuffled /\ Len(participants) = 3
    /\ last.op = "remove" /\ last.secret = ADMIN_SECRET
    /\ last.status = "AlreadyClosed"

\* C20: when joins, or joins and removes, run concurrently while the gate is
\* OPEN, once all of them have returned the snapshot on disk holds the
\* registry in memory: no save_data finishing later has written an older
\* list over a newer one.
C20_SnapshotCurrent ==
    (/\ \A t \in Threads :
           threads[t].pc = "done" /\ threads[t].op \in {"join", "remove"}
     /\ \E t \in Threads : Answered(t, "join", "OK")) =>
        /\ disk.exists /\ disk.valid
        /\ Loaded(disk) = Registry(participants, shuffled)

====
